---- MODULE Spec2Model ----
(***************************************************************************)
(* The controller command applier, cluster::topic_updates_dispatcher.       *)
(*                                                                         *)
(* One command at a time is taken from the log-replay driver, the          *)
(* pre-state the handler needs is read from the local shard's topic table, *)
(* the command is applied to the topic table of every shard, the per-shard *)
(* results are compared, and on success the allocator, the balancer state  *)
(* and the leaders tables are updated.                                     *)
(*                                                                         *)
(* The topic table, the allocator, the balancer state, the leaders table   *)
(* and the replica-set helpers are collaborators whose code is not part of *)
(* the dispatcher's translation unit; they are modelled from the design    *)
(* document.  The handlers are translated from the dispatcher's source.    *)
(***************************************************************************)
EXTENDS Integers, Sequences, FiniteSets, TLC

(***************************************************************************)
(* Bounds of the model.                                                    *)
(***************************************************************************)
\* number of execution shards (ss::smp::count)
NumShards == 2
\* number of commands the driver supplies
MaxOffset == 4

Shards == 1..NumShards
\* the shard the dispatcher runs on: _topic_table.local()
LocalShard == 1

Topics == {"orders", "mirror"}
PartIds == {0, 1}
PartOrder == <<0, 1>>
NTPs == Topics \X PartIds

\* a placement slot, model::broker_shard: <<node, core>>
N1 == <<1, 0>>
N2 == <<2, 0>>
N3 == <<3, 0>>
Slots == {N1, N2, N3}
\* the replica sets (vectors of broker_shard) commands may carry
ReplicaChoices == {<<N1, N2>>, <<N2, N1>>, <<N1, N3>>}
NoReplicas == <<>>

InSeq(x, s) == \E i \in 1..Len(s) : s[i] = x
SeqToSet(s) == {s[i] : i \in 1..Len(s)}

(***************************************************************************)
(* Replica-set algebra (cluster_utils.h).                                  *)
(***************************************************************************)
\* the elements of lhs that are not in rhs, in lhs's order
subtract_replica_sets(lhs, rhs) == SelectSeq(lhs, LAMBDA x : ~InSeq(x, rhs))

\* the distinct elements of both
union_replica_sets(lhs, rhs) == lhs \o SelectSeq(rhs, LAMBDA x : ~InSeq(x, lhs))

(***************************************************************************)
(* std::optional<T>, with a value of T's type also when empty.             *)
(***************************************************************************)
Some(v) == [has |-> TRUE, val |-> v]
None(v) == [has |-> FALSE, val |-> v]

(***************************************************************************)
(* The topic table of one shard.                                           *)
(*   exists   the topics of the table                                      *)
(*   assign   the replica set of every partition (NoReplicas: no such      *)
(*            partition)                                                   *)
(*   updates  the movement record of every partition (state "none": no     *)
(*            record)                                                      *)
(***************************************************************************)
NoUpdate == [state |-> "none", previous |-> NoReplicas, target |-> NoReplicas]
NoAssignments == [p \in PartIds |-> NoReplicas]
EmptyTable ==
    [exists |-> {},
     assign |-> [t \in Topics |-> NoAssignments],
     updates |-> [n \in NTPs |-> NoUpdate]]

HasPartition(tbl, ntp) == ntp[1] \in tbl.exists /\ tbl.assign[ntp[1]][ntp[2]] # NoReplicas
HasUpdate(tbl, ntp) == tbl.updates[ntp].state # "none"

\* topic_table::get_topic_assignments
get_topic_assignments(tbl, tp) ==
    IF tp \in tbl.exists THEN Some(tbl.assign[tp]) ELSE None(NoAssignments)

\* topic_table::get_partition_assignment
get_partition_assignment(tbl, ntp) ==
    IF HasPartition(tbl, ntp) THEN Some(tbl.assign[ntp[1]][ntp[2]]) ELSE None(NoReplicas)

\* topic_table::get_previous_replica_set
get_previous_replica_set(tbl, ntp) ==
    IF HasUpdate(tbl, ntp) THEN Some(tbl.updates[ntp].previous) ELSE None(NoReplicas)

\* topic_table::get_target_replica_set
get_target_replica_set(tbl, ntp) ==
    IF HasUpdate(tbl, ntp) THEN Some(tbl.updates[ntp].target) ELSE None(NoReplicas)

\* topic_table::updates_in_progress
updates_in_progress(tbl) == tbl.updates

(***************************************************************************)
(* Commands (cluster/commands.h), all with the same fields:                *)
(*   kind         the command type                                         *)
(*   tp, pid      the key: a topic, or an NTP <<tp, pid>>                  *)
(*   replicas     the replica set of a move or finish command              *)
(*   assignments  the partition assignments of a create command           *)
(*   moves        <<partition id, replicas>> pairs of move_topic_replicas  *)
(*   force        cancel_moving_partition_replicas_cmd_data::force         *)
(*   source       the source topic of a non replicable topic               *)
(***************************************************************************)
PA(id, replicas) == [id |-> id, replicas |-> replicas, group |-> id + 1]

Cmd(kind, tp, pid, replicas, assignments, moves, force, source) ==
    [kind |-> kind, tp |-> tp, pid |-> pid, replicas |-> replicas,
     assignments |-> assignments, moves |-> moves, force |-> force,
     source |-> source]

NoCmd == Cmd("none", "orders", 0, NoReplicas, <<>>, <<>>, FALSE, "orders")

AssignmentChoices ==
    {<<PA(0, r)>> : r \in ReplicaChoices}
        \cup {<<PA(0, <<N1, N2>>), PA(1, <<N2, N1>>)>>}

NewPartitionChoices == {<<PA(1, <<N1, N3>>)>>}

MoveChoices ==
    {<<[id |-> 0, replicas |-> r]>> : r \in ReplicaChoices}
        \cup {<<[id |-> 0, replicas |-> <<N1, N3>>], [id |-> 1, replicas |-> <<N1, N3>>]>>,
              <<[id |-> 1, replicas |-> <<N1, N3>>], [id |-> 0, replicas |-> <<N1, N3>>]>>}

\* the topics the driver's commands are about; "mirror" is the name of the
\* non replicable topic
MainTopic == "orders"
MirrorTopic == "mirror"

Commands ==
    {Cmd("create_topic", MainTopic, 0, NoReplicas, a, <<>>, FALSE, MainTopic) :
        a \in AssignmentChoices}
    \cup {Cmd("delete_topic", t, 0, NoReplicas, <<>>, <<>>, FALSE, t) : t \in Topics}
    \cup {Cmd("create_partition", MainTopic, 0, NoReplicas, a, <<>>, FALSE, MainTopic) :
        a \in NewPartitionChoices}
    \cup {Cmd("move_partition_replicas", MainTopic, p, r, <<>>, <<>>, FALSE, MainTopic) :
        p \in PartIds, r \in ReplicaChoices}
    \cup {Cmd("cancel_moving_partition_replicas", MainTopic, p, NoReplicas, <<>>, <<>>, f, MainTopic) :
        p \in PartIds, f \in BOOLEAN}
    \cup {Cmd("finish_moving_partition_replicas", MainTopic, p, r, <<>>, <<>>, FALSE, MainTopic) :
        p \in PartIds, r \in ReplicaChoices}
    \cup {Cmd("revert_cancel_partition_move", MainTopic, p, NoReplicas, <<>>, <<>>, FALSE, MainTopic) :
        p \in PartIds}
    \cup {Cmd("move_topic_replicas", MainTopic, 0, NoReplicas, <<>>, m, FALSE, MainTopic) :
        m \in MoveChoices}
    \cup {Cmd("update_topic_properties", MainTopic, 0, NoReplicas, <<>>, <<>>, FALSE, MainTopic)}
    \cup {Cmd("create_non_replicable_topic", MirrorTopic, 0, NoReplicas, <<>>, <<>>, FALSE, MainTopic)}

Key(cmd) == <<cmd.tp, cmd.pid>>

(***************************************************************************)
(* topic_table::apply: the result of a command on one shard's table and    *)
(* the table it leaves.  A command that is not accepted changes nothing.   *)
(***************************************************************************)
AssignedBy(assignments) ==
    [p \in PartIds |->
        IF \E i \in 1..Len(assignments) : assignments[i].id = p
            THEN (CHOOSE a \in SeqToSet(assignments) : a.id = p).replicas
            ELSE NoReplicas]

MovedBy(moves, p) == (CHOOSE m \in SeqToSet(moves) : m.id = p).replicas
Named(moves) == {moves[i].id : i \in 1..Len(moves)}

TableResult(tbl, cmd) ==
    CASE cmd.kind = "create_topic" ->
            IF cmd.tp \in tbl.exists THEN "topic_already_exists" ELSE "success"
      [] cmd.kind = "delete_topic" ->
            IF cmd.tp \in tbl.exists THEN "success" ELSE "topic_not_exists"
      [] cmd.kind = "create_partition" ->
            IF cmd.tp \notin tbl.exists THEN "topic_not_exists"
            ELSE IF \E i \in 1..Len(cmd.assignments) :
                        HasPartition(tbl, <<cmd.tp, cmd.assignments[i].id>>)
                 THEN "partition_already_exists"
            ELSE "success"
      [] cmd.kind = "move_partition_replicas" ->
            IF cmd.tp \notin tbl.exists THEN "topic_not_exists"
            ELSE IF ~HasPartition(tbl, Key(cmd)) THEN "partition_not_exists"
            ELSE IF HasUpdate(tbl, Key(cmd)) THEN "update_in_progress"
            ELSE "success"
      [] cmd.kind = "cancel_moving_partition_replicas" ->
            IF cmd.tp \notin tbl.exists THEN "topic_not_exists"
            ELSE IF ~HasPartition(tbl, Key(cmd)) THEN "partition_not_exists"
            ELSE IF tbl.updates[Key(cmd)].state = "in_progress" THEN "success"
            ELSE IF tbl.updates[Key(cmd)].state = "cancelled" /\ cmd.force THEN "success"
            ELSE "no_update_in_progress"
      [] cmd.kind = "finish_moving_partition_replicas" ->
            IF cmd.tp \notin tbl.exists THEN "topic_not_exists"
            ELSE IF ~HasPartition(tbl, Key(cmd)) THEN "partition_not_exists"
            ELSE IF ~HasUpdate(tbl, Key(cmd)) THEN "no_update_in_progress"
            ELSE IF tbl.assign[cmd.tp][cmd.pid] # cmd.replicas THEN "invalid_node_operation"
            ELSE "success"
      [] cmd.kind = "revert_cancel_partition_move" ->
            IF cmd.tp \notin tbl.exists THEN "topic_not_exists"
            ELSE IF ~HasPartition(tbl, Key(cmd)) THEN "partition_not_exists"
            ELSE IF tbl.updates[Key(cmd)].state \in {"cancelled", "force_cancelled"}
                 THEN "success"
            ELSE "no_update_in_progress"
      [] cmd.kind = "move_topic_replicas" ->
            IF cmd.tp \notin tbl.exists THEN "topic_not_exists"
            ELSE IF \E p \in Named(cmd.moves) : ~HasPartition(tbl, <<cmd.tp, p>>)
                 THEN "partition_not_exists"
            ELSE IF \E p \in Named(cmd.moves) : HasUpdate(tbl, <<cmd.tp, p>>)
                 THEN "update_in_progress"
            ELSE "success"
      [] cmd.kind = "update_topic_properties" ->
            IF cmd.tp \in tbl.exists THEN "success" ELSE "topic_not_exists"
      [] cmd.kind = "create_non_replicable_topic" ->
            IF cmd.source \notin tbl.exists THEN "source_topic_not_exists"
            ELSE IF cmd.tp \in tbl.exists THEN "topic_already_exists"
            ELSE "success"
      [] OTHER -> "success"

TableNext(tbl, cmd) ==
    CASE cmd.kind = "create_topic" ->
            [tbl EXCEPT !.exists = @ \cup {cmd.tp},
                        !.assign[cmd.tp] = AssignedBy(cmd.assignments)]
      [] cmd.kind = "delete_topic" ->
            [exists |-> tbl.exists \ {cmd.tp},
             assign |-> [tbl.assign EXCEPT ![cmd.tp] = NoAssignments],
             updates |-> [n \in NTPs |->
                            IF n[1] = cmd.tp THEN NoUpdate ELSE tbl.updates[n]]]
      [] cmd.kind = "create_partition" ->
            [tbl EXCEPT !.assign[cmd.tp] =
                [p \in PartIds |->
                    IF AssignedBy(cmd.assignments)[p] # NoReplicas
                        THEN AssignedBy(cmd.assignments)[p] ELSE @[p]]]
      [] cmd.kind = "move_partition_replicas" ->
            [tbl EXCEPT !.assign[cmd.tp][cmd.pid] = cmd.replicas,
                        !.updates[Key(cmd)] =
                            [state |-> "in_progress",
                             previous |-> tbl.assign[cmd.tp][cmd.pid],
                             target |-> cmd.replicas]]
      [] cmd.kind = "cancel_moving_partition_replicas" ->
            [tbl EXCEPT !.assign[cmd.tp][cmd.pid] = tbl.updates[Key(cmd)].previous,
                        !.updates[Key(cmd)].state =
                            IF cmd.force THEN "force_cancelled" ELSE "cancelled"]
      [] cmd.kind = "finish_moving_partition_replicas" ->
            [tbl EXCEPT !.updates[Key(cmd)] = NoUpdate]
      [] cmd.kind = "revert_cancel_partition_move" ->
            [tbl EXCEPT !.assign[cmd.tp][cmd.pid] = tbl.updates[Key(cmd)].target,
                        !.updates[Key(cmd)] = NoUpdate]
      [] cmd.kind = "move_topic_replicas" ->
            [tbl EXCEPT !.assign[cmd.tp] =
                            [p \in PartIds |->
                                IF p \in Named(cmd.moves) THEN MovedBy(cmd.moves, p) ELSE @[p]],
                        !.updates =
                            [n \in NTPs |->
                                IF n[1] = cmd.tp /\ n[2] \in Named(cmd.moves)
                                    THEN [state |-> "in_progress",
                                          previous |-> tbl.assign[n[1]][n[2]],
                                          target |-> MovedBy(cmd.moves, n[2])]
                                    ELSE @[n]]]
      [] cmd.kind = "create_non_replicable_topic" ->
            [tbl EXCEPT !.exists = @ \cup {cmd.tp},
                        !.assign[cmd.tp] = tbl.assign[cmd.source]]
      [] OTHER -> tbl

(***************************************************************************)
(* The calls a handler makes on the allocator and the balancer state, in   *)
(* the order it makes them.  ntp is the partition the handler makes the    *)
(* call for (the allocator's interface itself takes no NTP).               *)
(*   update_allocation_state(a, group, domain)                             *)
(*   add_allocations(a, domain), remove_allocations(a, domain)             *)
(*   handle_ntp_update(ntp, a, b): a the previous, b the new replicas      *)
(***************************************************************************)
Call(op, ntp, a, b, domain, group) ==
    [op |-> op, ntp |-> ntp, a |-> a, b |-> b, domain |-> domain, group |-> group]

\* partition_allocation_domain of a topic (cluster_utils.h)
get_allocation_domain(tp) == IF tp = MirrorTopic THEN "internal" ELSE "common"

add_allocations(ntp, to_add, domain) ==
    Call("add_allocations", ntp, to_add, NoReplicas, domain, 0)
remove_allocations(ntp, to_delete, domain) ==
    Call("remove_allocations", ntp, to_delete, NoReplicas, domain, 0)
update_allocation_state(ntp, replicas, group, domain) ==
    Call("update_allocation_state", ntp, replicas, NoReplicas, domain, group)
handle_ntp_update(ntp, prev, new) ==
    Call("handle_ntp_update", ntp, prev, new, "none", 0)

\* the outcome of a handler: a failed vassert (fatal), or the error code it
\* returns, after the calls it made and with the leaders it goes on to
\* broadcast
Outcome(fatal, result, calls, leaders) ==
    [fatal |-> fatal, result |-> result, calls |-> calls, leaders |-> leaders]
Returns(result, calls) == Outcome(FALSE, result, calls, <<>>)
Vassert == Outcome(TRUE, "none", <<>>, <<>>)

\* the partitions of an assignments_set, as the sequence a loop visits
PartitionsOf(assignments) == SelectSeq(PartOrder, LAMBDA p : assignments[p] # NoReplicas)

(***************************************************************************)
(* The state a handler reads from the local topic table before it          *)
(* dispatches the command.                                                 *)
(***************************************************************************)
NoInProgress == [p \in PartIds |-> None(NoReplicas)]
NoPreState ==
    [topic_assignments |-> None(NoAssignments), in_progress |-> NoInProgress,
     p_as |-> None(NoReplicas), previous |-> None(NoReplicas),
     target |-> None(NoReplicas)]

\* collect_in_progress taking the wrong side of the move
collect_in_progress_swapped(tbl, tp, current_assignments) ==
    [p \in PartIds |->
        IF current_assignments[p] = NoReplicas THEN None(NoReplicas)
        ELSE IF updates_in_progress(tbl)[<<tp, p>>].state = "none" THEN None(NoReplicas)
        ELSE IF updates_in_progress(tbl)[<<tp, p>>].state = "in_progress"
             THEN Some(updates_in_progress(tbl)[<<tp, p>>].target)
        ELSE Some(updates_in_progress(tbl)[<<tp, p>>].previous)]

collect_in_progress(tbl, tp, current_assignments) ==
    [p \in PartIds |->
        IF current_assignments[p] = NoReplicas THEN None(NoReplicas)
        ELSE IF updates_in_progress(tbl)[<<tp, p>>].state = "none" THEN None(NoReplicas)
        ELSE IF updates_in_progress(tbl)[<<tp, p>>].state = "in_progress"
             THEN Some(updates_in_progress(tbl)[<<tp, p>>].previous)
        ELSE Some(updates_in_progress(tbl)[<<tp, p>>].target)]

ReadPreState(tbl, cmd) ==
    CASE cmd.kind = "delete_topic" ->
            [NoPreState EXCEPT
                !.topic_assignments = get_topic_assignments(tbl, cmd.tp),
                !.in_progress =
                    IF get_topic_assignments(tbl, cmd.tp).has
                        THEN collect_in_progress(
                                tbl, cmd.tp, get_topic_assignments(tbl, cmd.tp).val)
                        ELSE NoInProgress]
      [] cmd.kind = "move_partition_replicas" ->
            [NoPreState EXCEPT !.p_as = get_partition_assignment(tbl, Key(cmd))]
      [] cmd.kind = "cancel_moving_partition_replicas" ->
            [NoPreState EXCEPT
                !.p_as = get_partition_assignment(tbl, Key(cmd)),
                !.previous = get_previous_replica_set(tbl, Key(cmd))]
      [] cmd.kind \in {"finish_moving_partition_replicas", "revert_cancel_partition_move"} ->
            [NoPreState EXCEPT
                !.previous = get_previous_replica_set(tbl, Key(cmd)),
                !.target = get_target_replica_set(tbl, Key(cmd))]
      [] cmd.kind = "create_non_replicable_topic" ->
            [NoPreState EXCEPT
                !.topic_assignments = get_topic_assignments(tbl, cmd.source)]
      [] cmd.kind = "move_topic_replicas" ->
            [NoPreState EXCEPT
                !.topic_assignments = get_topic_assignments(tbl, cmd.tp)]
      [] OTHER -> NoPreState

(***************************************************************************)
(* The handlers: what apply(cmd, offset) does once dispatch_updates_to_cores*)
(* has returned ec, with the state pre read before the dispatch.           *)
(***************************************************************************)
\* update_allocations(assignments, domain), for the partitions of topic tp
update_allocations(tp, assignments, domain) ==
    [i \in 1..Len(assignments) |->
        update_allocation_state(
            <<tp, assignments[i].id>>, assignments[i].replicas,
            assignments[i].group, domain)]

\* deallocate_topic releasing the current replicas only
deallocate_topic_current_only(tp, topic_assignments, in_progress, domain) ==
    [i \in 1..Len(PartitionsOf(topic_assignments)) |->
        remove_allocations(
            <<tp, PartitionsOf(topic_assignments)[i]>>,
            topic_assignments[PartitionsOf(topic_assignments)[i]], domain)]

\* deallocate_topic(tp_ns, topic_assignments, in_progress, domain)
deallocate_topic(tp, topic_assignments, in_progress, domain) ==
    [i \in 1..Len(PartitionsOf(topic_assignments)) |->
        LET p == PartitionsOf(topic_assignments)[i]
            to_delete ==
                IF ~in_progress[p].has
                    THEN topic_assignments[p]
                    ELSE union_replica_sets(in_progress[p].val, topic_assignments[p])
        IN  remove_allocations(<<tp, p>>, to_delete, domain)]

\* the create handler estimating the leader from the last replica
apply_create_topic_last_replica(cmd, pre, ec) ==
    IF ec = "success"
        THEN Outcome(FALSE, "success",
                update_allocations(cmd.tp, cmd.assignments, get_allocation_domain(cmd.tp))
                    \o [i \in 1..Len(cmd.assignments) |->
                            handle_ntp_update(
                                <<cmd.tp, cmd.assignments[i].id>>, NoReplicas,
                                cmd.assignments[i].replicas)],
                [i \in 1..Len(cmd.assignments) |->
                    [ntp |-> <<cmd.tp, cmd.assignments[i].id>>,
                     node |-> cmd.assignments[i].replicas[
                                Len(cmd.assignments[i].replicas)][1]]])
        ELSE Returns(ec, <<>>)

apply_create_topic(cmd, pre, ec) ==
    IF ec = "success"
        THEN Outcome(FALSE, "success",
                update_allocations(cmd.tp, cmd.assignments, get_allocation_domain(cmd.tp))
                    \o [i \in 1..Len(cmd.assignments) |->
                            handle_ntp_update(
                                <<cmd.tp, cmd.assignments[i].id>>, NoReplicas,
                                cmd.assignments[i].replicas)],
                [i \in 1..Len(cmd.assignments) |->
                    [ntp |-> <<cmd.tp, cmd.assignments[i].id>>,
                     node |-> cmd.assignments[i].replicas[1][1]]])
        ELSE Returns(ec, <<>>)

\* the delete handler not reporting the deleted partitions to the balancer
apply_delete_topic_unreported(cmd, pre, ec) ==
    IF ec = "success"
        THEN IF ~pre.topic_assignments.has
                THEN Vassert
                ELSE Returns(ec,
                        deallocate_topic(
                            cmd.tp, pre.topic_assignments.val, pre.in_progress,
                            get_allocation_domain(cmd.tp)))
        ELSE Returns(ec, <<>>)

apply_delete_topic(cmd, pre, ec) ==
    IF ec = "success"
        THEN IF ~pre.topic_assignments.has
                THEN Vassert
                ELSE Returns(ec,
                        deallocate_topic(
                            cmd.tp, pre.topic_assignments.val, pre.in_progress,
                            get_allocation_domain(cmd.tp))
                        \o [i \in 1..Len(PartitionsOf(pre.topic_assignments.val)) |->
                                LET p == PartitionsOf(pre.topic_assignments.val)[i]
                                IN  handle_ntp_update(
                                        <<cmd.tp, p>>, pre.topic_assignments.val[p],
                                        NoReplicas)])
        ELSE Returns(ec, <<>>)

\* the move handler making its calls on every shard
apply_move_partition_replicas_per_shard(cmd, pre, ec) ==
    IF ec = "success"
        THEN IF ~pre.p_as.has
                THEN Vassert
                ELSE Returns(ec,
                        [i \in 1..(2 * NumShards) |->
                            IF i % 2 = 1
                                THEN add_allocations(
                                        Key(cmd),
                                        subtract_replica_sets(cmd.replicas, pre.p_as.val),
                                        get_allocation_domain(cmd.tp))
                                ELSE handle_ntp_update(Key(cmd), pre.p_as.val, cmd.replicas)])
        ELSE Returns(ec, <<>>)

\* the move handler registering the whole new set
apply_move_partition_replicas_whole_set(cmd, pre, ec) ==
    IF ec = "success"
        THEN IF ~pre.p_as.has
                THEN Vassert
                ELSE Returns(ec,
                        <<add_allocations(
                            Key(cmd), cmd.replicas, get_allocation_domain(cmd.tp)),
                          handle_ntp_update(Key(cmd), pre.p_as.val, cmd.replicas)>>)
        ELSE Returns(ec, <<>>)

\* the move handler registering what the old set has and the new one lacks
apply_move_partition_replicas_swapped(cmd, pre, ec) ==
    IF ec = "success"
        THEN IF ~pre.p_as.has
                THEN Vassert
                ELSE Returns(ec,
                        <<add_allocations(
                            Key(cmd), subtract_replica_sets(pre.p_as.val, cmd.replicas),
                            get_allocation_domain(cmd.tp)),
                          handle_ntp_update(Key(cmd), pre.p_as.val, cmd.replicas)>>)
        ELSE Returns(ec, <<>>)

apply_move_partition_replicas(cmd, pre, ec) ==
    IF ec = "success"
        THEN IF ~pre.p_as.has
                THEN Vassert
                ELSE Returns(ec,
                        <<add_allocations(
                            Key(cmd), subtract_replica_sets(cmd.replicas, pre.p_as.val),
                            get_allocation_domain(cmd.tp)),
                          handle_ntp_update(Key(cmd), pre.p_as.val, cmd.replicas)>>)
        ELSE Returns(ec, <<>>)

\* the cancel handler reporting the move in the direction it was started
apply_cancel_moving_reversed(cmd, pre, ec) ==
    IF ec # "success"
        THEN Returns(ec, <<>>)
        ELSE IF ~(pre.p_as.has /\ pre.previous.has)
            THEN Vassert
            ELSE Returns(ec, <<handle_ntp_update(Key(cmd), pre.previous.val, pre.p_as.val)>>)

apply_cancel_moving_partition_replicas(cmd, pre, ec) ==
    IF ec # "success"
        THEN Returns(ec, <<>>)
        ELSE IF ~(pre.p_as.has /\ pre.previous.has)
            THEN Vassert
            ELSE Returns(ec, <<handle_ntp_update(Key(cmd), pre.p_as.val, pre.previous.val)>>)

\* the finish handler releasing the side that stays
apply_finish_moving_swapped(cmd, pre, ec) ==
    IF ec # "success"
        THEN Returns(ec, <<>>)
        ELSE IF ~pre.previous.has \/ ~pre.target.has
            THEN Vassert
            ELSE IF pre.target.val = cmd.replicas
                THEN Returns(ec,
                        <<remove_allocations(
                            Key(cmd),
                            subtract_replica_sets(cmd.replicas, pre.previous.val),
                            get_allocation_domain(cmd.tp))>>)
                ELSE IF pre.previous.val # cmd.replicas
                    THEN Vassert
                    ELSE Returns(ec,
                            <<remove_allocations(
                                Key(cmd),
                                subtract_replica_sets(cmd.replicas, pre.target.val),
                                get_allocation_domain(cmd.tp))>>)

\* the finish handler without the vassert on the command's replicas
apply_finish_moving_unasserted(cmd, pre, ec) ==
    IF ec # "success"
        THEN Returns(ec, <<>>)
        ELSE IF ~pre.previous.has \/ ~pre.target.has
            THEN Vassert
            ELSE IF pre.target.val = cmd.replicas
                THEN Returns(ec,
                        <<remove_allocations(
                            Key(cmd),
                            subtract_replica_sets(pre.previous.val, cmd.replicas),
                            get_allocation_domain(cmd.tp))>>)
                ELSE Returns(ec,
                        <<remove_allocations(
                            Key(cmd),
                            subtract_replica_sets(pre.target.val, cmd.replicas),
                            get_allocation_domain(cmd.tp))>>)

apply_finish_moving_partition_replicas(cmd, pre, ec) ==
    IF ec # "success"
        THEN Returns(ec, <<>>)
        ELSE IF ~pre.previous.has \/ ~pre.target.has
            THEN Vassert
            ELSE IF pre.target.val = cmd.replicas
                THEN Returns(ec,
                        <<remove_allocations(
                            Key(cmd),
                            subtract_replica_sets(pre.previous.val, cmd.replicas),
                            get_allocation_domain(cmd.tp))>>)
                ELSE IF pre.previous.val # cmd.replicas
                    THEN Vassert
                    ELSE Returns(ec,
                            <<remove_allocations(
                                Key(cmd),
                                subtract_replica_sets(pre.target.val, cmd.replicas),
                                get_allocation_domain(cmd.tp))>>)

apply_update_topic_properties(cmd, pre, ec) == Returns(ec, <<>>)

apply_create_partition(cmd, pre, ec) ==
    IF ec = "success"
        THEN Returns(ec,
                update_allocations(cmd.tp, cmd.assignments, get_allocation_domain(cmd.tp))
                    \o [i \in 1..Len(cmd.assignments) |->
                            handle_ntp_update(
                                <<cmd.tp, cmd.assignments[i].id>>, NoReplicas,
                                cmd.assignments[i].replicas)])
        ELSE Returns(ec, <<>>)

apply_create_non_replicable_topic(cmd, pre, ec) ==
    IF ec = "success"
        THEN IF ~pre.topic_assignments.has
                THEN Vassert
                ELSE Returns(ec,
                        update_allocations(
                            cmd.tp,
                            [i \in 1..Len(PartitionsOf(pre.topic_assignments.val)) |->
                                LET p == PartitionsOf(pre.topic_assignments.val)[i]
                                IN  PA(p, pre.topic_assignments.val[p])],
                            get_allocation_domain(cmd.tp)))
        ELSE Returns(ec, <<>>)

\* the loop of apply(move_topic_replicas_cmd) from the i-th pair of the
\* command on, after the calls made for the pairs before it
RECURSIVE MoveTopicLoop(_, _, _, _, _)
MoveTopicLoop(cmd, assignments, ec, i, calls) ==
    IF i > Len(cmd.moves)
        THEN Returns(ec, calls)
        ELSE IF assignments[cmd.moves[i].id] = NoReplicas
            THEN Returns("partition_not_exists", calls)
            ELSE MoveTopicLoop(cmd, assignments, ec, i + 1,
                    calls \o
                    <<add_allocations(
                        <<cmd.tp, cmd.moves[i].id>>,
                        subtract_replica_sets(
                            cmd.moves[i].replicas, assignments[cmd.moves[i].id]),
                        get_allocation_domain(cmd.tp)),
                      handle_ntp_update(
                        <<cmd.tp, cmd.moves[i].id>>, assignments[cmd.moves[i].id],
                        cmd.moves[i].replicas)>>)

\* the topic move handler not looking at the error code
apply_move_topic_replicas_ignoring_ec(cmd, pre, ec) ==
    IF ~pre.topic_assignments.has
        THEN Returns("topic_not_exists", <<>>)
        ELSE MoveTopicLoop(cmd, pre.topic_assignments.val, ec, 1, <<>>)

\* the topic move handler not looking whether the topic was there
apply_move_topic_replicas_any_topic(cmd, pre, ec) ==
    IF ec = "success"
        THEN MoveTopicLoop(cmd, pre.topic_assignments.val, ec, 1, <<>>)
        ELSE Returns(ec, <<>>)

apply_move_topic_replicas(cmd, pre, ec) ==
    IF ~pre.topic_assignments.has
        THEN Returns("topic_not_exists", <<>>)
        ELSE IF ec = "success"
            THEN MoveTopicLoop(cmd, pre.topic_assignments.val, ec, 1, <<>>)
            ELSE Returns(ec, <<>>)

\* the revert handler without the vasserts on what it read
apply_revert_cancel_unasserted(cmd, pre, ec) ==
    IF ec # "success"
        THEN Returns(ec, <<>>)
        ELSE Returns(ec,
                <<remove_allocations(
                    Key(cmd),
                    subtract_replica_sets(pre.previous.val, pre.target.val),
                    get_allocation_domain(cmd.tp)),
                  handle_ntp_update(Key(cmd), pre.previous.val, pre.target.val)>>)

\* the revert handler releasing what the target has and the previous set lacks
apply_revert_cancel_swapped(cmd, pre, ec) ==
    IF ec # "success"
        THEN Returns(ec, <<>>)
        ELSE IF ~pre.previous.has \/ ~pre.target.has
            THEN Vassert
            ELSE Returns(ec,
                    <<remove_allocations(
                        Key(cmd),
                        subtract_replica_sets(pre.target.val, pre.previous.val),
                        get_allocation_domain(cmd.tp)),
                      handle_ntp_update(Key(cmd), pre.previous.val, pre.target.val)>>)

apply_revert_cancel_partition_move(cmd, pre, ec) ==
    IF ec # "success"
        THEN Returns(ec, <<>>)
        ELSE IF ~pre.previous.has \/ ~pre.target.has
            THEN Vassert
            ELSE Returns(ec,
                    <<remove_allocations(
                        Key(cmd),
                        subtract_replica_sets(pre.previous.val, pre.target.val),
                        get_allocation_domain(cmd.tp)),
                      handle_ntp_update(Key(cmd), pre.previous.val, pre.target.val)>>)

\* std::visit in apply_update: the handler of the command's type
Handle(cmd, pre, ec) ==
    CASE cmd.kind = "create_topic" -> apply_create_topic(cmd, pre, ec)
      [] cmd.kind = "delete_topic" -> apply_delete_topic(cmd, pre, ec)
      [] cmd.kind = "move_partition_replicas" -> apply_move_partition_replicas(cmd, pre, ec)
      [] cmd.kind = "cancel_moving_partition_replicas" ->
            apply_cancel_moving_partition_replicas(cmd, pre, ec)
      [] cmd.kind = "finish_moving_partition_replicas" ->
            apply_finish_moving_partition_replicas(cmd, pre, ec)
      [] cmd.kind = "update_topic_properties" -> apply_update_topic_properties(cmd, pre, ec)
      [] cmd.kind = "create_partition" -> apply_create_partition(cmd, pre, ec)
      [] cmd.kind = "create_non_replicable_topic" ->
            apply_create_non_replicable_topic(cmd, pre, ec)
      [] cmd.kind = "move_topic_replicas" -> apply_move_topic_replicas(cmd, pre, ec)
      [] cmd.kind = "revert_cancel_partition_move" ->
            apply_revert_cancel_partition_move(cmd, pre, ec)

\* dispatch_updates_to_cores once every shard has answered: the vassert on
\* the results, and results.front()
ResultsAgree(results) == \A s \in Shards \ {1} : results[s] = results[s - 1]
\* dispatch_updates_to_cores without the vassert on the results
dispatch_updates_to_cores_unchecked(results) ==
    [fatal |-> FALSE, ec |-> results[1]]
dispatch_updates_to_cores(results) ==
    [fatal |-> ~ResultsAgree(results), ec |-> results[1]]

(***************************************************************************)
(* The collaborators the calls act on.                                     *)
(***************************************************************************)
Domains == {"common", "internal"}
NoSlots == [x \in Slots |-> 0]
NoLeader == [term |-> 0, leader |-> 0]

Bump(count, replicas, d) == [x \in Slots |-> IF InSeq(x, replicas) THEN count[x] + d ELSE count[x]]
Delta(call) ==
    CASE call.op \in {"update_allocation_state", "add_allocations"} -> 1
      [] call.op = "remove_allocations" -> -1
      [] OTHER -> 0

\* partition_allocator: the number of replicas every slot holds, per domain
RECURSIVE AllocatorAfter(_, _)
AllocatorAfter(alloc, cs) ==
    IF cs = <<>> THEN alloc
    ELSE AllocatorAfter(
            IF Delta(Head(cs)) = 0 THEN alloc
            ELSE [alloc EXCEPT ![Head(cs).domain] = Bump(@, Head(cs).a, Delta(Head(cs)))],
            Tail(cs))

\* the slots registered and not yet released, per partition
RECURSIVE HeldAfter(_, _)
HeldAfter(h, cs) ==
    IF cs = <<>> THEN h
    ELSE HeldAfter(
            IF Delta(Head(cs)) = 0 THEN h
            ELSE [h EXCEPT ![Head(cs).ntp] = Bump(@, Head(cs).a, Delta(Head(cs)))],
            Tail(cs))

\* partition_balancer_state: the replicas last reported for every partition
RECURSIVE BalancerAfter(_, _)
BalancerAfter(b, cs) ==
    IF cs = <<>> THEN b
    ELSE BalancerAfter(
            IF Head(cs).op = "handle_ntp_update"
                THEN [b EXCEPT ![Head(cs).ntp] = Head(cs).b] ELSE b,
            Tail(cs))

VARIABLES
    table,          \* the topic table of every shard
    allocated,      \* the partition allocator
    lastNotified,   \* the partition balancer state
    leaderTbl,      \* the partition leaders table of every shard
    driver,         \* the log-replay driver: "ready" or "waiting" for apply_update
    offset,         \* the offset of the last command the driver supplied
    pc,             \* where apply_update is: idle, read, fanout, leaders, done, halted
    cur,            \* the command being applied
    pre,            \* the state the handler read before the dispatch
    pending,        \* the shards that have not applied the command yet
    results,        \* the error code of every shard's apply
    result,         \* the error code apply_update returns
    calls,          \* the allocator and balancer calls made for the command
    leaders,        \* the ntp_leader list of update_leaders_with_estimates
    leaderPending,  \* the <<leader, shard>> updates not yet made
    curFault,       \* a topic table wrongly reported success for this command
    held,           \* history: per partition, slots registered minus released
    start,          \* history: the collaborators as they were when the command arrived
    sound           \* history: no topic table has wrongly reported success

vars ==
    <<table, allocated, lastNotified, leaderTbl, driver, offset, pc, cur, pre,
      pending, results, result, calls, leaders, leaderPending, curFault, held, start, sound>>

Snapshot(tbl, alloc, notified, ldr, hld) ==
    [table |-> tbl, allocated |-> alloc, lastNotified |-> notified,
     leaderTbl |-> ldr, held |-> hld]

NoResults == [s \in Shards |-> "none"]

Init ==
    /\ table = [s \in Shards |-> EmptyTable]
    /\ allocated = [d \in Domains |-> NoSlots]
    /\ lastNotified = [n \in NTPs |-> NoReplicas]
    /\ leaderTbl = [s \in Shards |-> [n \in NTPs |-> NoLeader]]
    /\ driver = "ready"
    /\ offset = 0
    /\ pc = "idle"
    /\ cur = NoCmd
    /\ pre = NoPreState
    /\ pending = {}
    /\ results = NoResults
    /\ result = "none"
    /\ calls = <<>>
    /\ leaders = <<>>
    /\ leaderPending = {}
    /\ curFault = FALSE
    /\ held = [n \in NTPs |-> NoSlots]
    /\ start = Snapshot(EmptyTable, allocated, lastNotified, leaderTbl, held)
    /\ sound = TRUE

(***************************************************************************)
(* The log-replay driver.                                                  *)
(***************************************************************************)
\* the driver supplies the next command once the last apply_update returned
DriverMayApply(d) == d = "ready"

\* apply_update returning without awaiting the handler
ApplyUpdateReturnsEarly(p) == TRUE

\* apply_update co_awaits the handler: it returns when the handler is done
ApplyUpdateReturns(p) == p = "done"

\* apply_update(batch): the command arrives
Accept(cmd) ==
    /\ DriverMayApply(driver)
    /\ offset < MaxOffset
    /\ offset' = offset + 1
    /\ driver' = "waiting"
    /\ pc' = "read"
    /\ cur' = cmd
    /\ pre' = NoPreState
    /\ pending' = Shards
    /\ results' = NoResults
    /\ result' = "none"
    /\ calls' = <<>>
    /\ leaders' = <<>>
    /\ leaderPending' = {}
    /\ curFault' = FALSE
    /\ start' = Snapshot(table[LocalShard], allocated, lastNotified, leaderTbl, held)
    /\ UNCHANGED <<table, allocated, lastNotified, leaderTbl, held, sound>>

\* the driver receives the error code of apply_update; nothing of the
\* finished command is kept
Return ==
    /\ driver = "waiting"
    /\ ApplyUpdateReturns(pc)
    /\ driver' = "ready"
    /\ IF pc = "done"
         THEN /\ pc' = "idle"
              /\ cur' = NoCmd
              /\ pre' = NoPreState
              /\ results' = NoResults
              /\ result' = "none"
              /\ calls' = <<>>
              /\ leaders' = <<>>
              /\ curFault' = FALSE
              /\ start' = Snapshot(table[LocalShard], allocated, lastNotified,
                                   leaderTbl, held)
         ELSE UNCHANGED <<pc, cur, pre, results, result, calls, leaders, curFault,
                          start>>
    /\ UNCHANGED <<table, allocated, lastNotified, leaderTbl, offset, pending,
                   leaderPending, held, sound>>

(***************************************************************************)
(* apply(cmd, offset)                                                      *)
(***************************************************************************)
\* the handler's reads of _topic_table.local(), before the dispatch
Read ==
    /\ pc = "read"
    /\ pre' = ReadPreState(table[LocalShard], cur)
    /\ pc' = "fanout"
    /\ UNCHANGED <<table, allocated, lastNotified, leaderTbl, driver, offset, cur,
                   pending, results, result, calls, leaders, leaderPending,
                   curFault, held, start, sound>>

\* the dispatch started before the handler's reads
MayApplyBeforeRead(p) == p \in {"read", "fanout"}

\* the handler calls dispatch_updates_to_cores after its reads
MayApplyOnShard(p) == p = "fanout"

\* the results are used without awaiting the shards
NoneAwaited(p) == TRUE

\* parallel_transform over the shards is awaited before the results are used
AllJoined(p) == p = {}

\* do_apply(shard, cmd, table, o)
ShardApply(s) ==
    /\ MayApplyOnShard(pc)
    /\ s \in pending
    /\ pending' = pending \ {s}
    /\ results' = [results EXCEPT ![s] = TableResult(table[s], cur)]
    /\ table' = [table EXCEPT ![s] =
                    IF TableResult(@, cur) = "success" THEN TableNext(@, cur) ELSE @]
    /\ UNCHANGED <<allocated, lastNotified, leaderTbl, driver, offset, pc, cur, pre,
                   result, calls, leaders, leaderPending, curFault, held,
                   start, sound>>

\* a corrupted topic table: the shard reports success for a command its
\* table does not admit, and changes nothing.  At most one command of a
\* behaviour meets corrupted tables.
ShardApplyCorrupted(s) ==
    /\ MayApplyOnShard(pc)
    /\ s \in pending
    /\ TableResult(table[s], cur) # "success"
    /\ curFault \/ sound
    /\ pending' = pending \ {s}
    /\ results' = [results EXCEPT ![s] = "success"]
    /\ curFault' = TRUE
    /\ sound' = FALSE
    /\ UNCHANGED <<table, allocated, lastNotified, leaderTbl, driver, offset, pc,
                   cur, pre, result, calls, leaders, leaderPending, held, start>>

\* the continuation of the dispatch: the vassert on the shards' results, then
\* the handler's vasserts and its calls on the allocator and the balancer
Continue ==
    /\ pc = "fanout"
    /\ AllJoined(pending)
    /\ IF dispatch_updates_to_cores(results).fatal
         THEN /\ pc' = "halted"
              /\ UNCHANGED <<allocated, lastNotified, held, calls, result, leaders,
                             leaderPending>>
         ELSE LET h == Handle(cur, pre, dispatch_updates_to_cores(results).ec)
              IN  IF h.fatal
                    THEN /\ pc' = "halted"
                         /\ UNCHANGED <<allocated, lastNotified, held, calls, result,
                                        leaders, leaderPending>>
                    ELSE /\ allocated' = AllocatorAfter(allocated, h.calls)
                         /\ held' = HeldAfter(held, h.calls)
                         /\ lastNotified' = BalancerAfter(lastNotified, h.calls)
                         /\ calls' = h.calls
                         /\ result' = h.result
                         /\ leaders' = h.leaders
                         /\ leaderPending' = (1..Len(h.leaders)) \X Shards
                         /\ pc' = IF h.leaders = <<>> THEN "done" ELSE "leaders"
    /\ UNCHANGED <<table, leaderTbl, driver, offset, cur, pre, pending, results,
                   curFault, start, sound>>

\* update_leaders_with_estimates: one update_partition_leader of invoke_on_all
LeaderUpdate(i, s) ==
    /\ pc = "leaders"
    /\ <<i, s>> \in leaderPending
    /\ leaderPending' = leaderPending \ {<<i, s>>}
    /\ leaderTbl' = [leaderTbl EXCEPT ![s][leaders[i].ntp] =
                        [term |-> 1, leader |-> leaders[i].node]]
    /\ UNCHANGED <<table, allocated, lastNotified, driver, offset, pc, cur, pre,
                   pending, results, result, calls, leaders, curFault,
                   held, start, sound>>

\* apply(create_topic_cmd) returning without awaiting the broadcast
LeadersNotAwaited ==
    /\ pc = "leaders"
    /\ pc' = "done"
    /\ UNCHANGED <<table, allocated, lastNotified, leaderTbl, driver, offset, cur,
                   pre, pending, results, result, calls, leaders, leaderPending,
                   curFault, held, start, sound>>

\* the broadcast is awaited before apply(create_topic_cmd) returns
LeadersJoined ==
    /\ pc = "leaders"
    /\ leaderPending = {}
    /\ pc' = "done"
    /\ UNCHANGED <<table, allocated, lastNotified, leaderTbl, driver, offset, cur,
                   pre, pending, results, result, calls, leaders, leaderPending,
                   curFault, held, start, sound>>

Next ==
    \/ \E cmd \in Commands : Accept(cmd)
    \/ Read
    \/ \E s \in Shards : ShardApply(s)
    \/ \E s \in Shards : ShardApplyCorrupted(s)
    \/ Continue
    \/ \E i \in 1..Len(leaders), s \in Shards : LeaderUpdate(i, s)
    \/ LeadersJoined
    \/ Return

Spec == Init /\ [][Next]_vars

(***************************************************************************)
(* Properties.                                                             *)
(***************************************************************************)
AllocatorOps == {"update_allocation_state", "add_allocations", "remove_allocations"}
Uniform(r) == \A s, t \in Shards : results[s] = results[t] /\ results[s] = r
Diverged == \E s, t \in Shards : results[s] # results[t]
CallsOf(ops, ntp) == SelectSeq(calls, LAMBDA c : c.op \in ops /\ c.ntp = ntp)
NoEffect ==
    /\ calls = <<>>
    /\ allocated = start.allocated
    /\ held = start.held
    /\ lastNotified = start.lastNotified
    /\ leaderTbl = start.leaderTbl
    /\ leaders = <<>>
Answered == pc \in {"leaders", "done", "halted"}

\* C1: in a run whose topic tables are not corrupted, no partition ever has a
\* slot released that it does not hold, and once a topic is deleted (also in
\* the middle of a move, or of a cancelled move) none of its partitions holds a
\* slot: what was registered for it has been released.
AllocationConservation ==
    sound =>
        \A n \in NTPs :
            /\ \A x \in Slots : held[n][x] >= 0
            /\ (pc \in {"idle", "leaders", "done"} /\ n[1] \notin table[LocalShard].exists)
                    => held[n] = NoSlots

\* a topic is deleted while the move of one of its partitions is cancelled, and
\* the slots of both sides of the move are held
DeleteDuringCancelledMove ==
    /\ sound
    /\ pc = "done"
    /\ cur.kind = "delete_topic"
    /\ result = "success"
    /\ start.table.updates[<<cur.tp, 0>>].state = "cancelled"
    /\ Cardinality({x \in Slots : start.held[<<cur.tp, 0>>][x] > 0}) = 3
    /\ held[<<cur.tp, 0>>] = NoSlots

\* C2: when the shards' results of a command differ, processing halts: no error
\* code is returned to the driver and nothing is changed in the allocator, the
\* balancer state or the leaders tables.
ShardDivergenceIsFatal ==
    (Answered /\ Diverged) =>
        /\ pc = "halted"
        /\ driver = "waiting"
        /\ result = "none"
        /\ NoEffect

DivergenceHalted ==
    /\ pc = "halted"
    /\ results[1] = "success"
    /\ results[2] = "topic_not_exists"

\* C3: when every shard returns the same error code other than success, the
\* handler returns that error code and makes no call on the allocator, the
\* balancer state or the leaders tables.
FailurePolicy ==
    (Answered /\ ~Diverged /\ results[1] # "success") =>
        /\ pc = "done"
        /\ result = results[1]
        /\ NoEffect

MoveTopicRejected ==
    /\ pc = "done"
    /\ cur.kind = "move_topic_replicas"
    /\ Uniform("update_in_progress")
    /\ pre.topic_assignments.has
    /\ result = "update_in_progress"

\* C4 (as claimed): whenever the dispatcher returns an error code other than
\* success, it has made no call on the allocator or the balancer state for the
\* command.
RejectionHasNoSideEffect ==
    (pc = "done" /\ result # "success") => NoEffect

\* C5: what a handler holds as pre-state is what the local topic table held
\* when the command arrived, before any shard applied the command, and the
\* calls the handler makes are the ones computed from that state.
PreStateReadBeforeDispatch ==
    /\ pc \in {"fanout", "leaders", "done", "halted"}
            => pre = ReadPreState(start.table, cur)
    /\ pc \in {"leaders", "done"}
            => calls = Handle(cur, ReadPreState(start.table, cur), results[1]).calls

\* a finish command has been applied: the movement record it read is gone
\* from the local topic table
FinishAppliedAfterRead ==
    /\ pc = "done"
    /\ cur.kind = "finish_moving_partition_replicas"
    /\ result = "success"
    /\ pre.previous.has /\ pre.target.has
    /\ ~get_previous_replica_set(table[LocalShard], Key(cur)).has
    /\ calls # <<>>

\* C6: a command arrives only when the processing of the command before it is
\* complete (no shard still to apply it, no leader update outstanding), and
\* with a larger offset; the command being processed is replaced only once its
\* processing has ended.
SerialCommandProcessing ==
    [][/\ offset' # offset =>
            /\ pc = "idle"
            /\ pending = {}
            /\ leaderPending = {}
            /\ offset' > offset
       /\ (cur' # cur /\ cur # NoCmd) => pc \in {"done", "halted"}]_vars

\* a second command is being applied to the shards after a first one
\* succeeded
SecondCommandInFanout ==
    /\ offset = 2
    /\ pc = "fanout"
    /\ pending = {NumShards}
    /\ table[LocalShard].exists # {}

\* C7: the calls of a successfully applied command are made once per affected
\* partition, whatever the number of shards: for every partition at most one
\* allocator call and at most one balancer call, exactly one of each where the
\* command's kind makes it.
Affected ==
    CASE cur.kind \in {"create_topic", "create_partition"} ->
            {<<cur.tp, cur.assignments[i].id>> : i \in 1..Len(cur.assignments)}
      [] cur.kind = "delete_topic" ->
            {n \in NTPs : n[1] = cur.tp /\ HasPartition(start.table, n)}
      [] cur.kind = "create_non_replicable_topic" ->
            {n \in NTPs : n[1] = cur.tp /\ HasPartition(start.table, <<cur.source, n[2]>>)}
      [] cur.kind = "move_topic_replicas" ->
            {<<cur.tp, cur.moves[i].id>> : i \in 1..Len(cur.moves)}
      [] cur.kind = "update_topic_properties" -> {}
      [] OTHER -> {Key(cur)}
AllocatorCallsPerPartition ==
    IF cur.kind = "cancel_moving_partition_replicas" THEN 0 ELSE 1
BalancerCallsPerPartition ==
    IF cur.kind \in {"finish_moving_partition_replicas", "create_non_replicable_topic"}
        THEN 0 ELSE 1
SideEffectsOncePerCommand ==
    (pc \in {"leaders", "done"} /\ result = "success") =>
        \A n \in NTPs :
            /\ Len(CallsOf(AllocatorOps, n)) =
                    IF n \in Affected THEN AllocatorCallsPerPartition ELSE 0
            /\ Len(CallsOf({"handle_ntp_update"}, n)) =
                    IF n \in Affected THEN BalancerCallsPerPartition ELSE 0
            /\ \A x \in Slots :
                    held[n][x] - start.held[n][x] \in {-1, 0, 1}

MoveAppliedOnAllShards ==
    /\ pc = "done"
    /\ cur.kind = "move_partition_replicas"
    /\ Uniform("success")
    /\ result = "success"
    /\ \A s \in Shards : table[s].updates[Key(cur)].state = "in_progress"
    /\ Len(calls) = 2
    /\ held[Key(cur)] # start.held[Key(cur)]

\* C8: a finish command that succeeds releases, when its replica set is the
\* target of the move, the replicas of the previous set that are not in the
\* target, and when it is the previous set, the replicas of the target that are
\* not in the previous set; it registers nothing and does not call the
\* balancer.
Released(n) == CallsOf({"remove_allocations"}, n)
FinishMovingDelta ==
    (pc = "done" /\ cur.kind = "finish_moving_partition_replicas" /\ result = "success") =>
        LET previous == SeqToSet(start.table.updates[Key(cur)].previous)
            target == SeqToSet(start.table.updates[Key(cur)].target)
            final == SeqToSet(cur.replicas)
            to_delete == SeqToSet(calls[1].a)
        IN  /\ Len(calls) = 1
            /\ calls[1].op = "remove_allocations"
            /\ calls[1].domain = get_allocation_domain(cur.tp)
            /\ Len(calls[1].a) = Cardinality(to_delete)
            /\ final = target => to_delete = previous \ target
            /\ final = previous => to_delete = target \ previous
            /\ final = target \/ final = previous
            /\ \A x \in Slots :
                    allocated[calls[1].domain][x] =
                        start.allocated[calls[1].domain][x] - (IF x \in to_delete THEN 1 ELSE 0)
            /\ lastNotified = start.lastNotified

\* the finish of a cancelled move: the command carries the previous set and
\* the one replica only the target has is released
FinishOfCancelledMove ==
    /\ pc = "done"
    /\ cur.kind = "finish_moving_partition_replicas"
    /\ result = "success"
    /\ start.table.updates[Key(cur)].state = "cancelled"
    /\ cur.replicas = start.table.updates[Key(cur)].previous
    /\ cur.replicas # start.table.updates[Key(cur)].target
    /\ Len(calls) = 1 /\ calls[1].a = <<N3>>

\* C9: a finish command every shard reports success for, with a replica set
\* that is neither the previous nor the target set of the recorded move,
\* halts processing: no error code is returned and nothing is released.
FinishWithForeignReplicasIsFatal ==
    (/\ Answered
     /\ cur.kind = "finish_moving_partition_replicas"
     /\ Uniform("success")
     /\ HasUpdate(start.table, Key(cur))
     /\ cur.replicas # start.table.updates[Key(cur)].previous
     /\ cur.replicas # start.table.updates[Key(cur)].target) =>
        /\ pc = "halted"
        /\ driver = "waiting"
        /\ result = "none"
        /\ NoEffect

FinishWithForeignReplicasHalted ==
    /\ pc = "halted"
    /\ cur.kind = "finish_moving_partition_replicas"
    /\ Uniform("success")
    /\ start.table.updates[Key(cur)].state = "in_progress"
    /\ start.table.updates[Key(cur)].previous = <<N1, N2>>
    /\ start.table.updates[Key(cur)].target = <<N1, N3>>
    /\ cur.replicas = <<N2, N1>>

\* C10: a delete command that succeeds releases, for every partition of the
\* topic, its current replicas together with the previous replicas of a move in
\* progress or the target replicas of a cancelled move, in one call, and reports
\* (current replicas, none) to the balancer once; it makes no other call.
AbandonedSide(n) ==
    CASE start.table.updates[n].state = "in_progress" ->
            SeqToSet(start.table.updates[n].previous)
      [] start.table.updates[n].state \in {"cancelled", "force_cancelled"} ->
            SeqToSet(start.table.updates[n].target)
      [] OTHER -> {}
DeleteTopicDelta ==
    (pc = "done" /\ cur.kind = "delete_topic" /\ result = "success") =>
        /\ \A n \in Affected :
            /\ Len(Released(n)) = 1
            /\ Len(Released(n)[1].a) = Cardinality(SeqToSet(Released(n)[1].a))
            /\ SeqToSet(Released(n)[1].a) =
                    SeqToSet(start.table.assign[n[1]][n[2]]) \cup AbandonedSide(n)
            /\ Released(n)[1].domain = get_allocation_domain(cur.tp)
            /\ CallsOf({"handle_ntp_update"}, n) =
                    <<handle_ntp_update(n, start.table.assign[n[1]][n[2]], NoReplicas)>>
        /\ Len(calls) = 2 * Cardinality(Affected)
        /\ \A i \in 1..Len(calls) : calls[i].ntp \in Affected

\* a topic is deleted while a partition is moving from {n1, n2} to {n1, n3}
DeleteDuringMove ==
    /\ pc = "done"
    /\ cur.kind = "delete_topic"
    /\ result = "success"
    /\ start.table.updates[<<cur.tp, 0>>].state = "in_progress"
    /\ start.table.assign[cur.tp][0] = <<N1, N3>>
    /\ SeqToSet(Released(<<cur.tp, 0>>)[1].a) = {N1, N2, N3}

\* C11: a move command that succeeds registers exactly the replicas of the new
\* set that the partition's current set (read before the command was applied)
\* lacks, releases nothing, and reports (old set, new set) to the balancer
\* once.
AllocatedDelta(domain, x) == allocated[domain][x] - start.allocated[domain][x]
MovePartitionReplicasDelta ==
    (pc = "done" /\ cur.kind = "move_partition_replicas" /\ result = "success") =>
        LET old == start.table.assign[cur.tp][cur.pid]
            to_add == SeqToSet(calls[1].a)
        IN  /\ Len(calls) = 2
            /\ calls[1].op = "add_allocations"
            /\ calls[1].ntp = Key(cur)
            /\ calls[1].domain = get_allocation_domain(cur.tp)
            /\ Len(calls[1].a) = Cardinality(to_add)
            /\ to_add = SeqToSet(cur.replicas) \ SeqToSet(old)
            /\ \A d \in Domains, x \in Slots :
                    AllocatedDelta(d, x) =
                        IF d = calls[1].domain /\ x \in to_add THEN 1 ELSE 0
            /\ calls[2] = handle_ntp_update(Key(cur), old, cur.replicas)
            /\ lastNotified[Key(cur)] = cur.replicas

\* a partition on {n1, n2} is moved to {n1, n3}: n3 alone is registered
MoveRegistersNewReplica ==
    /\ pc = "done"
    /\ cur.kind = "move_partition_replicas"
    /\ result = "success"
    /\ start.table.assign[cur.tp][cur.pid] = <<N1, N2>>
    /\ cur.replicas = <<N1, N3>>
    /\ calls[1].a = <<N3>>
    /\ allocated[get_allocation_domain(cur.tp)][N3] =
            start.allocated[get_allocation_domain(cur.tp)][N3] + 1

\* C12: a cancel command that succeeds leaves the allocator as it was and
\* reports (current set, previous set of the recorded move) to the balancer
\* once, both as read before the command was applied.
CancelMovingDelta ==
    (pc = "done" /\ cur.kind = "cancel_moving_partition_replicas" /\ result = "success") =>
        /\ calls =
            <<handle_ntp_update(
                Key(cur), start.table.assign[cur.tp][cur.pid],
                start.table.updates[Key(cur)].previous)>>
        /\ HasUpdate(start.table, Key(cur))
        /\ allocated = start.allocated
        /\ held = start.held
        /\ lastNotified[Key(cur)] = start.table.updates[Key(cur)].previous

\* the move from {n1, n2} to {n1, n3} is cancelled
MoveCancelled ==
    /\ pc = "done"
    /\ cur.kind = "cancel_moving_partition_replicas"
    /\ result = "success"
    /\ start.table.assign[cur.tp][cur.pid] = <<N1, N3>>
    /\ start.table.updates[Key(cur)].previous = <<N1, N2>>
    /\ table[LocalShard].assign[cur.tp][cur.pid] = <<N1, N2>>
    /\ Len(calls) = 1

\* C13: a revert command that succeeds releases exactly the replicas of the
\* recorded previous set that the recorded target set lacks, registers
\* nothing, and reports (previous set, target set) to the balancer once.
RevertCancelDelta ==
    (pc = "done" /\ cur.kind = "revert_cancel_partition_move" /\ result = "success") =>
        LET previous == start.table.updates[Key(cur)].previous
            target == start.table.updates[Key(cur)].target
            to_delete == SeqToSet(calls[1].a)
        IN  /\ Len(calls) = 2
            /\ HasUpdate(start.table, Key(cur))
            /\ calls[1].op = "remove_allocations"
            /\ calls[1].ntp = Key(cur)
            /\ calls[1].domain = get_allocation_domain(cur.tp)
            /\ Len(calls[1].a) = Cardinality(to_delete)
            /\ to_delete = SeqToSet(previous) \ SeqToSet(target)
            /\ \A d \in Domains, x \in Slots :
                    AllocatedDelta(d, x) =
                        IF d = calls[1].domain /\ x \in to_delete THEN -1 ELSE 0
            /\ calls[2] = handle_ntp_update(Key(cur), previous, target)
            /\ lastNotified[Key(cur)] = target

\* the cancelled move from {n1, n2} to {n1, n3} is reverted: n2 is released
CancelReverted ==
    /\ pc = "done"
    /\ cur.kind = "revert_cancel_partition_move"
    /\ result = "success"
    /\ start.table.updates[Key(cur)].state = "cancelled"
    /\ start.table.updates[Key(cur)].previous = <<N1, N2>>
    /\ start.table.updates[Key(cur)].target = <<N1, N3>>
    /\ calls[1].a = <<N2>>
    /\ table[LocalShard].assign[cur.tp][cur.pid] = <<N1, N3>>

\* C14: a create-topic command that succeeds registers, for each partition
\* assignment it carries, the assignment's replica set once with the allocator
\* under the topic's allocation domain, reports (none, replicas) to the balancer
\* once, and tells every shard's leaders table that the partition's leader is
\* the node of the first replica, with term 1.
Registered(a, x) == IF InSeq(x, a.replicas) THEN 1 ELSE 0
RECURSIVE RegisteredBy(_, _)
RegisteredBy(assignments, x) ==
    IF assignments = <<>> THEN 0
    ELSE Registered(Head(assignments), x) + RegisteredBy(Tail(assignments), x)
CreationCalls ==
    /\ Len(calls) = 2 * Len(cur.assignments)
    /\ \A i \in 1..Len(cur.assignments) :
        LET a == cur.assignments[i]
            n == <<cur.tp, a.id>>
        IN  /\ CallsOf(AllocatorOps, n) =
                    <<update_allocation_state(
                        n, a.replicas, a.group, get_allocation_domain(cur.tp))>>
            /\ CallsOf({"handle_ntp_update"}, n) =
                    <<handle_ntp_update(n, NoReplicas, a.replicas)>>
            /\ lastNotified[n] = a.replicas
    /\ \A d \in Domains, x \in Slots :
            AllocatedDelta(d, x) =
                IF d = get_allocation_domain(cur.tp)
                    THEN RegisteredBy(cur.assignments, x) ELSE 0
EstimatedLeader(a) == [term |-> 1, leader |-> a.replicas[1][1]]
CreateTopicSideEffects ==
    (pc \in {"leaders", "done"} /\ cur.kind = "create_topic" /\ result = "success") =>
        /\ CreationCalls
        /\ Len(leaders) = Len(cur.assignments)
        /\ \A i \in 1..Len(cur.assignments) :
            /\ leaders[i] =
                    [ntp |-> <<cur.tp, cur.assignments[i].id>>,
                     node |-> cur.assignments[i].replicas[1][1]]
            /\ pc = "done" =>
                    \A s \in Shards :
                        leaderTbl[s][<<cur.tp, cur.assignments[i].id>>] =
                            EstimatedLeader(cur.assignments[i])

\* a topic is created with a partition on {n2, n1}: node 2 is its estimated
\* leader
TopicCreatedWithLeaderN2 ==
    /\ pc = "done"
    /\ cur.kind = "create_topic"
    /\ result = "success"
    /\ cur.assignments[1].replicas = <<N2, N1>>
    /\ leaderTbl[LocalShard][<<cur.tp, cur.assignments[1].id>>] =
            [term |-> 1, leader |-> N2[1]]
    /\ Len(calls) = 2 * Len(cur.assignments)

\* C15 (as claimed): a create-partition command that succeeds has the side
\* effects of a create-topic command for the partitions it adds: each
\* partition's replica set registered with the allocator, (none, replicas)
\* reported to the balancer, and the estimated leader (the node of the first
\* replica) held by every shard's leaders table.
CreatePartitionSideEffects ==
    (pc = "done" /\ cur.kind = "create_partition" /\ result = "success") =>
        /\ CreationCalls
        /\ \A i \in 1..Len(cur.assignments), s \in Shards :
                leaderTbl[s][<<cur.tp, cur.assignments[i].id>>] =
                    EstimatedLeader(cur.assignments[i])

\* C16: a topic move command is answered topic_not_exists when the topic was
\* not in the local topic table before the command, and partition_not_exists
\* when the topic was there and the command names a partition that was not;
\* otherwise, when every shard applied it with success, it is answered success
\* and for every partition it names the replicas of the new set that the old
\* set lacks are registered in one call and (old set, new set) is reported to
\* the balancer once.
NamesAbsentPartition ==
    \E i \in 1..Len(cur.moves) : ~HasPartition(start.table, <<cur.tp, cur.moves[i].id>>)
RECURSIVE AddedBy(_, _)
AddedBy(moves, x) ==
    IF moves = <<>> THEN 0
    ELSE (IF /\ InSeq(x, Head(moves).replicas)
             /\ ~InSeq(x, start.table.assign[cur.tp][Head(moves).id])
            THEN 1 ELSE 0)
         + AddedBy(Tail(moves), x)
MoveTopicReplicasOutcome ==
    (pc = "done" /\ cur.kind = "move_topic_replicas") =>
        /\ ~get_topic_assignments(start.table, cur.tp).has
                => result = "topic_not_exists"
        /\ (get_topic_assignments(start.table, cur.tp).has /\ NamesAbsentPartition)
                => result = "partition_not_exists"
        /\ (/\ get_topic_assignments(start.table, cur.tp).has
            /\ ~NamesAbsentPartition
            /\ Uniform("success")) =>
                /\ result = "success"
                /\ Len(calls) = 2 * Len(cur.moves)
                /\ \A i \in 1..Len(cur.moves) :
                    LET n == <<cur.tp, cur.moves[i].id>>
                        old == start.table.assign[cur.tp][cur.moves[i].id]
                        new == cur.moves[i].replicas
                        added == CallsOf(AllocatorOps, n)
                    IN  /\ Len(added) = 1
                        /\ added[1].op = "add_allocations"
                        /\ added[1].domain = get_allocation_domain(cur.tp)
                        /\ Len(added[1].a) = Cardinality(SeqToSet(added[1].a))
                        /\ SeqToSet(added[1].a) = SeqToSet(new) \ SeqToSet(old)
                        /\ CallsOf({"handle_ntp_update"}, n) =
                                <<handle_ntp_update(n, old, new)>>
                        /\ lastNotified[n] = new
                /\ \A d \in Domains, x \in Slots :
                        AllocatedDelta(d, x) =
                            IF d = get_allocation_domain(cur.tp)
                                THEN AddedBy(cur.moves, x) ELSE 0

\* both partitions of a topic are moved to {n1, n3} by one command
BothPartitionsMoved ==
    /\ pc = "done"
    /\ cur.kind = "move_topic_replicas"
    /\ result = "success"
    /\ Len(cur.moves) = 2
    /\ Len(calls) = 4
    /\ \A p \in PartIds : table[LocalShard].assign[cur.tp][p] = <<N1, N3>>
    /\ \E p \in PartIds : start.table.assign[cur.tp][p] = <<N2, N1>>

\* C17: while some shard has not applied the command nothing has been derived
\* from it: the shards' results have not been compared, no error code is set
\* and no call on the allocator, the balancer state or the leaders tables has
\* been made; once the results have been compared every shard has applied the
\* command.
FanOutJoined ==
    /\ pending # {} =>
            /\ pc \in {"read", "fanout"}
            /\ result = "none"
            /\ NoEffect
    /\ Answered =>
            /\ pending = {}
            /\ \A s \in Shards : results[s] # "none"
    /\ \A s \in Shards : (s \in pending) <=> (pc # "idle" /\ results[s] = "none")

\* every shard applied a command and the calls derived from it have been made
AppliedEverywhereThenDerived ==
    /\ pc = "done"
    /\ pending = {}
    /\ Uniform("success")
    /\ \A s \in Shards : table[s] = table[LocalShard]
    /\ table[LocalShard] # start.table
    /\ calls # <<>>
    /\ allocated # start.allocated

\* C18: when a create-topic command has returned success, no leader update of
\* the command is outstanding and every shard's leaders table holds, for every
\* partition the command created, the node of the partition's first replica
\* with term 1; no command has returned, and none is accepted, while a leader
\* update is outstanding.
LeaderBroadcastJoined ==
    /\ pc \in {"done", "idle"} => leaderPending = {}
    /\ driver = "ready" => leaderPending = {}
    /\ (pc = "done" /\ cur.kind = "create_topic" /\ result = "success") =>
            \A i \in 1..Len(leaders), s \in Shards :
                /\ <<i, s>> \notin leaderPending
                /\ leaderTbl[s][leaders[i].ntp] = [term |-> 1, leader |-> leaders[i].node]

\* a topic of two partitions has been created: every shard holds the
\* estimated leaders of both
BothLeadersOnEveryShard ==
    /\ pc = "done"
    /\ cur.kind = "create_topic"
    /\ result = "success"
    /\ Len(leaders) = 2
    /\ leaderPending = {}
    /\ \A s \in Shards :
        /\ leaderTbl[s][<<cur.tp, 0>>] = [term |-> 1, leader |-> N1[1]]
        /\ leaderTbl[s][<<cur.tp, 1>>] = [term |-> 1, leader |-> N2[1]]

\* C19: a cancel, finish or revert command every shard reports success for,
\* when the read before the command found no previous replica set for the
\* partition (or no target replica set, for finish and revert, or no current
\* assignment, for cancel), halts processing: no error code is returned and no
\* call on the allocator or the balancer state is made.
MovementPreStateMissing ==
    \/ /\ cur.kind = "cancel_moving_partition_replicas"
       /\ ~pre.p_as.has \/ ~pre.previous.has
    \/ /\ cur.kind \in {"finish_moving_partition_replicas", "revert_cancel_partition_move"}
       /\ ~pre.previous.has \/ ~pre.target.has
MissingMovementPreStateIsFatal ==
    (Answered /\ Uniform("success") /\ MovementPreStateMissing) =>
        /\ pc = "halted"
        /\ driver = "waiting"
        /\ result = "none"
        /\ NoEffect

\* every shard reported success for the revert of a partition that is there
\* and has no move recorded
RevertWithoutMoveHalted ==
    /\ pc = "halted"
    /\ cur.kind = "revert_cancel_partition_move"
    /\ Uniform("success")
    /\ HasPartition(start.table, Key(cur))
    /\ ~pre.previous.has
    /\ ~pre.target.has

\* C20: in a run whose topic tables are not corrupted, between two commands
\* every partition of the topic table holds each slot of its current replica
\* set once and no other slot when no move is recorded for it, and each slot of
\* the union of the previous and the target set once and no other slot while a
\* move is recorded (in progress, cancelled or force cancelled).
ExpectedSlots(n) ==
    IF HasUpdate(table[LocalShard], n)
        THEN SeqToSet(union_replica_sets(
                table[LocalShard].updates[n].previous,
                table[LocalShard].updates[n].target))
        ELSE SeqToSet(table[LocalShard].assign[n[1]][n[2]])
AllocatorCatalogAgreement ==
    (sound /\ pc \in {"idle", "done"}) =>
        \A n \in NTPs :
            HasPartition(table[LocalShard], n) =>
                held[n] = [x \in Slots |-> IF x \in ExpectedSlots(n) THEN 1 ELSE 0]

\* between two commands, a partition whose move from {n1, n2} to {n1, n3} was
\* cancelled holds n1, n2 and n3
CancelledMoveHoldsBothSides ==
    /\ sound
    /\ pc = "idle"
    /\ \E n \in NTPs :
        /\ table[LocalShard].updates[n].state = "cancelled"
        /\ table[LocalShard].assign[n[1]][n[2]] = <<N1, N2>>
        /\ held[n] = [x \in Slots |-> 1]

\* C21: in a run whose topic tables are not corrupted, for every partition of
\* a topic created by a create-topic or create-partition command, each report
\* to the balancer carries as previous replicas the new replicas of the report
\* before it for that partition (none for the first one) and as new replicas
\* the replicas the topic table holds for the partition after the command (none
\* after the topic is deleted); so between two commands the last reported new
\* replicas are the partition's current replicas.
CurrentReplicas(n) ==
    IF HasPartition(table[LocalShard], n)
        THEN table[LocalShard].assign[n[1]][n[2]] ELSE NoReplicas
CreatedByCreateCommands(n) == n[1] = MainTopic
BalancerNotificationsChain ==
    sound =>
        /\ (pc \in {"leaders", "done"} /\ result = "success") =>
                \A i \in 1..Len(calls) :
                    (calls[i].op = "handle_ntp_update"
                        /\ CreatedByCreateCommands(calls[i].ntp)) =>
                            /\ calls[i].a = start.lastNotified[calls[i].ntp]
                            /\ calls[i].b = CurrentReplicas(calls[i].ntp)
        /\ pc \in {"idle", "done"} =>
                \A n \in NTPs :
                    CreatedByCreateCommands(n) => lastNotified[n] = CurrentReplicas(n)

\* the cancelled move from {n1, n2} to {n1, n3} is reverted: the report before
\* it, of the cancel, ended on {n1, n2}, and the revert reports {n1, n2} to
\* {n1, n3}
RevertChainsOnCancel ==
    /\ sound
    /\ pc = "done"
    /\ cur.kind = "revert_cancel_partition_move"
    /\ result = "success"
    /\ start.lastNotified[Key(cur)] = <<N1, N2>>
    /\ calls[2] = handle_ntp_update(Key(cur), <<N1, N2>>, <<N1, N3>>)
    /\ CurrentReplicas(Key(cur)) = <<N1, N3>>

====
